---- MODULE Spec2Model ----
(***************************************************************************)
(* A model of the music_stem_separator package: the StemSeparator and      *)
(* AudioAnalyzer classes, the records they return, the two click commands  *)
(* of the command-line interface, and the part of the world they touch     *)
(* (the file system and the logging records).                              *)
(*                                                                         *)
(* Paths are pathlib paths relative to the working directory, modelled by  *)
(* their tuple of parts: Path("") and Path(".") are << >>.                 *)
(* The delegated libraries (spleeter, librosa) are not part of the         *)
(* package: each of their calls is a nondeterministic choice between       *)
(* raising an error and returning.                                         *)
(***************************************************************************)
EXTENDS Naturals, Sequences, FiniteSets, TLC

VARIABLES
    fs,          \* the file system: existing path |-> [kind, data]
    separators,  \* the StemSeparator objects constructed so far
    results,     \* the StemSeparationResult objects constructed so far
    analyzers,   \* the AudioAnalyzer objects constructed so far
    features,    \* the AudioFeatures objects constructed so far
    pc,          \* position of the running analyze_file call ("idle" when none)
    frame,       \* locals of the running analyze_file call
    call,        \* the library call in progress or last completed
    cli,         \* the command-line invocation last completed
    loggerLevel, \* level of the "music_stem_separator" logger
    log          \* records emitted by the call in progress or last completed

vars == <<fs, separators, results, analyzers, features, pc, frame,
          call, cli, loggerLevel, log>>

----------------------------------------------------------------------------
(* Bounds of the model *)

\* objects (separators and analyzers) constructed in one run
MaxObjects == 1
\* records (separation results and audio features) constructed in one run
MaxRecords == 2

----------------------------------------------------------------------------
(* The values the operations are called with *)

InputDir == <<"in">>
SongA == <<"in", "a.wav">>
SongB == <<"in", "b.wav">>
MissingSong == <<"in", "none.wav">>
NestedDir == <<"out", "stems">>

\* files given to separate and analyze_file
InputFiles == {SongA, SongB, MissingSong}

\* output directories: an existing directory, one whose parent is missing,
\* and a path that exists as a regular file
OutputDirs == {InputDir, NestedDir, SongA}

\* the Literal of __init__, and the command line's default model name
ModelNames == {"2stems", "4stems", "htdemucs"}

----------------------------------------------------------------------------
(* The file system *)

NoData == << >>

DirNode == [kind |-> "dir", data |-> NoData]

FileNode(data) == [kind |-> "file", data |-> data]

Parent(p) == IF p = << >> THEN << >> ELSE SubSeq(p, 1, Len(p) - 1)

Join(d, name) == Append(d, name)

Exists(fsys, p) == p \in DOMAIN fsys

IsDir(fsys, p) == p \in DOMAIN fsys /\ fsys[p].kind = "dir"

IsFile(fsys, p) == p \in DOMAIN fsys /\ fsys[p].kind = "file"

\* some proper ancestor of p exists and is not a directory
RECURSIVE FileAmongAncestors(_, _)
FileAmongAncestors(fsys, p) ==
    IF p = << >> THEN FALSE
    ELSE IsFile(fsys, Parent(p)) \/ FileAmongAncestors(fsys, Parent(p))

\* os.mkdir: the error it raises, "None" when it creates the directory
OsMkdirError(fsys, p) ==
    IF FileAmongAncestors(fsys, p) THEN "NotADirectoryError"
    ELSE IF Exists(fsys, p) THEN "FileExistsError"
    ELSE IF ~Exists(fsys, Parent(p)) THEN "FileNotFoundError"
    ELSE "None"

\* Path.mkdir(parents=..., exist_ok=...): [err, fs]
RECURSIVE Mkdir(_, _, _, _)
Mkdir(fsys, p, parents, exist_ok) ==
    LET e == OsMkdirError(fsys, p) IN
    CASE e = "None" -> [err |-> "None", fs |-> fsys @@ (p :> DirNode)]
      [] e = "FileNotFoundError" ->
            IF ~parents \/ Parent(p) = p
            THEN [err |-> e, fs |-> fsys]
            ELSE LET up == Mkdir(fsys, Parent(p), TRUE, TRUE) IN
                 IF up.err # "None" THEN up
                 ELSE Mkdir(up.fs, p, FALSE, exist_ok)
      [] OTHER ->
            IF ~exist_ok \/ ~IsDir(fsys, p)
            THEN [err |-> e, fs |-> fsys]
            ELSE [err |-> "None", fs |-> fsys]

InitialFs ==
    (<< >> :> DirNode) @@ (InputDir :> DirNode)
    @@ (SongA :> FileNode(NoData)) @@ (SongB :> FileNode(NoData))

----------------------------------------------------------------------------
(* Logging *)

PackageLogger == "music_stem_separator"
SeparatorLogger == "music_stem_separator.separator"

LogRecord(name, level, text, arg) ==
    [name |-> name, level |-> level, text |-> text, arg |-> arg]

----------------------------------------------------------------------------
(* Calls *)

NoCall ==
    [op |-> "none", self |-> 0, path |-> << >>, model |-> "", kwargs |-> {},
     status |-> "returned", ret |-> 0, exc |-> "None", libExc |-> "None",
     written |-> {}, tempo |-> 0]

NoCli ==
    [cmd |-> "", input_dir |-> << >>, output_dir |-> << >>, model |-> "",
     skips |-> {}, verbose |-> FALSE, exit |-> 0, usage |-> "", exc |-> "None"]

NoFrame == [self |-> 0, file_path |-> << >>, y |-> << >>, sr |-> 0, features |-> 0]

\* what a logger call adds to the records: logger.info and logger.error pass
\* at every level the package sets (NOTSET under the root's INFO, or DEBUG)
Emit(records, name, level, text, arg) ==
    Append(records, LogRecord(name, level, text, arg))

----------------------------------------------------------------------------
(* StemSeparator *)

\* the instruments of a spleeter configuration
StemsForModel(model_name) ==
    CASE model_name = "2stems" -> {"vocals", "accompaniment"}
      [] model_name = "4stems" -> {"vocals", "drums", "bass", "other"}
      [] model_name = "5stems" -> {"vocals", "drums", "bass", "piano", "other"}
      [] OTHER -> {}

\* f"{stem}.wav", and filename_format "{instrument}.{codec}" with codec "wav"
WavName(stem) ==
    CASE stem = "vocals" -> "vocals.wav"
      [] stem = "accompaniment" -> "accompaniment.wav"
      [] stem = "drums" -> "drums.wav"
      [] stem = "bass" -> "bass.wav"
      [] stem = "piano" -> "piano.wav"
      [] stem = "other" -> "other.wav"

\* SpleeterSeparator(f"spleeter:{model_name}"): the error raised, or "None"
SpleeterInitError(model_name) ==
    IF StemsForModel(model_name) = {} THEN "SpleeterError" ELSE "None"

SpleeterSeparator(model_name) == [params |-> <<"spleeter", model_name>>]

\* variant: mkdir without parents=True
SeparatorMkdirNoParents(fsys, output_dir) == Mkdir(fsys, output_dir, FALSE, TRUE)

\* self.output_dir.mkdir(parents=True, exist_ok=True)
SeparatorMkdir(fsys, output_dir) == Mkdir(fsys, output_dir, TRUE, TRUE)

NewSeparator(model_name, output_dir) ==
    [model_name |-> model_name, output_dir |-> output_dir,
     separator |-> SpleeterSeparator(model_name)]

\* StemSeparator(model_name=m, output_dir=d)
StemSeparatorInit(m, d) ==
    /\ pc = "idle"
    /\ Len(separators) + Len(analyzers) < MaxObjects
    /\ LET made == SeparatorMkdir(fs, d)
           exc == IF made.err # "None" THEN made.err ELSE SpleeterInitError(m)
       IN /\ fs' = made.fs
          /\ separators' = IF exc = "None"
                           THEN Append(separators, NewSeparator(m, d))
                           ELSE separators
          /\ call' = [NoCall EXCEPT !.op = "StemSeparator", !.model = m, !.path = d,
                         !.status = IF exc = "None" THEN "returned" ELSE "raised",
                         !.ret = IF exc = "None" THEN Len(separators) + 1 ELSE 0,
                         !.exc = exc,
                         !.libExc = IF made.err = "None" THEN exc ELSE "None"]
    /\ log' = << >>
    /\ UNCHANGED <<results, analyzers, features, pc, frame, cli, loggerLevel>>

\* what separate_to_file may leave behind when it returns: every instrument of
\* the model, or all of them but one (the case line 65 of separate tests for)
LibraryWrites(model_name) ==
    {StemsForModel(model_name)}
    \cup {StemsForModel(model_name) \ {s} : s \in StemsForModel(model_name)}

\* separate_to_file raises for a file it cannot read, and may raise for any file
SeparateErrors(fsys, input_file) ==
    IF IsFile(fsys, input_file) THEN {"None", "SpleeterError"} ELSE {"SpleeterError"}

\* variant: spleeter's default filename_format "{filename}/{instrument}.{codec}"
ExportPathPerInput(output_dir, input_file, stem) ==
    Join(Join(output_dir, input_file[Len(input_file)]), WavName(stem))

\* the path separate_to_file writes an instrument to:
\* str(self.output_dir) with filename_format="{instrument}.{codec}", codec="wav"
ExportPath(output_dir, input_file, stem) == Join(output_dir, WavName(stem))

\* separate_to_file returning after writing the instruments of `written`
SeparateToFile(fsys, input_file, output_dir, written) ==
    [p \in DOMAIN fsys \cup {ExportPath(output_dir, input_file, s) : s \in written} |->
        IF \E s \in written : p = ExportPath(output_dir, input_file, s)
        THEN FileNode(input_file)
        ELSE fsys[p]]

\* self.separator._get_stems_for_model()
GetStemsForModel(separator) == StemsForModel(separator.params[2])

\* stem_file = self.output_dir / f"{stem}.wav"
StemFile(output_dir, stem) == Join(output_dir, WavName(stem))

\* variant: the loop without its stem_file.exists() test
ScanStemsUnchecked(fsys, sep) ==
    [stem \in GetStemsForModel(sep.separator) |-> StemFile(sep.output_dir, stem)]

\* the loop of separate: stems[stem] = stem_file for each stem_file that exists
ScanStems(fsys, sep) ==
    [stem \in {s \in GetStemsForModel(sep.separator) :
                    Exists(fsys, StemFile(sep.output_dir, s))} |->
        StemFile(sep.output_dir, stem)]

\* variant: the result reports the directory of the input file
NewResultBesideInput(input_file, output_dir, stems) ==
    [input_file |-> input_file, output_dir |-> Parent(input_file), stems |-> stems]

NewResult(input_file, output_dir, stems) ==
    [input_file |-> input_file, output_dir |-> output_dir, stems |-> stems]

\* self.separate(input_file), self being separators[i]
Separate(i, input_file) ==
    /\ pc = "idle"
    /\ Len(results) + Len(features) < MaxRecords
    /\ LET sep == separators[i] IN
       \/ \E exc \in SeparateErrors(fs, input_file) \ {"None"} :
             /\ call' = [NoCall EXCEPT !.op = "separate", !.self = i,
                            !.path = input_file, !.status = "raised",
                            !.exc = exc, !.libExc = exc]
             /\ UNCHANGED <<fs, results>>
       \/ /\ "None" \in SeparateErrors(fs, input_file)
          /\ \E written \in LibraryWrites(sep.model_name) :
                LET after == SeparateToFile(fs, input_file, sep.output_dir, written)
                IN /\ fs' = after
                   /\ results' = Append(results,
                         NewResult(input_file, sep.output_dir, ScanStems(after, sep)))
                   /\ call' = [NoCall EXCEPT !.op = "separate", !.self = i,
                                  !.path = input_file, !.status = "returned",
                                  !.ret = Len(results) + 1, !.written = written]
    /\ log' = Emit(<< >>, SeparatorLogger, "INFO", "Separating stems from", input_file)
    /\ UNCHANGED <<separators, analyzers, features, pc, frame, cli, loggerLevel>>

----------------------------------------------------------------------------
(* AudioAnalyzer *)

DefaultSampleRate == 48000
DefaultBitDepth == 16

\* the parameters __init__ declares, and the methods the class defines
InitParameters == {"sample_rate", "bit_depth"}
AnalyzerMethods == {"analyze_file", "_extract_features"}

\* keyword arguments of a constructor call: `names` are the keywords passed
DefaultKwargs ==
    [names |-> {}, sample_rate |-> DefaultSampleRate, bit_depth |-> DefaultBitDepth,
     bpm_method |-> "", key_method |-> ""]

AnalyzerKwargs ==
    {DefaultKwargs,
     [DefaultKwargs EXCEPT !.names = {"sample_rate"}, !.sample_rate = 44100],
     [DefaultKwargs EXCEPT !.names = {"bpm_method", "key_method"},
                           !.bpm_method = "madmom", !.key_method = "librosa"]}

NewAnalyzer(kw) == [sample_rate |-> kw.sample_rate, bit_depth |-> kw.bit_depth]

\* AudioAnalyzer(**kw): a keyword __init__ does not declare is a TypeError
AudioAnalyzerInit(kw) ==
    /\ pc = "idle"
    /\ Len(separators) + Len(analyzers) < MaxObjects
    /\ LET exc == IF kw.names \subseteq InitParameters THEN "None" ELSE "TypeError"
       IN /\ analyzers' = IF exc = "None"
                          THEN Append(analyzers, NewAnalyzer(kw))
                          ELSE analyzers
          /\ call' = [NoCall EXCEPT !.op = "AudioAnalyzer", !.kwargs = kw,
                         !.status = IF exc = "None" THEN "returned" ELSE "raised",
                         !.ret = IF exc = "None" THEN Len(analyzers) + 1 ELSE 0,
                         !.exc = exc]
    /\ log' = << >>
    /\ UNCHANGED <<fs, separators, results, features, pc, frame, cli, loggerLevel>>

\* analyzers[i].<method>(file_path) for a method the class does not define
UndefinedMethod(i, method, file_path) ==
    /\ pc = "idle"
    /\ method \notin AnalyzerMethods
    /\ call' = [NoCall EXCEPT !.op = method, !.self = i, !.path = file_path,
                   !.status = "raised", !.exc = "AttributeError"]
    /\ log' = << >>
    /\ UNCHANGED <<fs, separators, results, analyzers, features, pc, frame,
                   cli, loggerLevel>>

\* librosa.load raises for a file it cannot read, and may raise for any file
LoadErrors(fsys, file_path) ==
    IF IsFile(fsys, file_path) THEN {"None", "NoBackendError"}
    ELSE {"FileNotFoundError"}

\* librosa.beat.beat_track: the tempo estimates it may return, and its errors
Tempos == {[type |-> "numpy.float64", value |-> t] : t \in {90, 120}}
BeatTrackErrors == {"None", "ParameterError"}

\* float(tempo)
ToFloat(x) == [type |-> "float", value |-> x.value]

\* Path("")
EmptyPath == << >>

\* key_str = "C"; AudioFeatures(path=Path(""), bpm=float(tempo), key=key_str)
NewFeatures(tempo) == [path |-> EmptyPath, bpm |-> ToFloat(tempo), key |-> "C"]

\* variant: analyze_file returns the record as _extract_features built it
AssignPathSkipped(rec, file_path) == rec

\* variant: the assignment rebuilds the record and loses its key
AssignPathLosingKey(rec, file_path) == [rec EXCEPT !.path = file_path, !.key = ""]

\* features.path = file_path
AssignPath(rec, file_path) == [rec EXCEPT !.path = file_path]

\* analyzers[i].analyze_file(file_path), up to the call of _extract_features
AnalyzeFileLoad(i, file_path) ==
    /\ pc = "idle"
    /\ Len(results) + Len(features) < MaxRecords
    /\ LET entered == Emit(<< >>, PackageLogger, "INFO", "Analyzing audio file:",
                           file_path)
       IN \/ \E exc \in LoadErrors(fs, file_path) \ {"None"} :
                /\ log' = Emit(entered, PackageLogger, "ERROR",
                               "Error loading audio file:", <<exc>>)
                /\ call' = [NoCall EXCEPT !.op = "analyze_file", !.self = i,
                               !.path = file_path, !.status = "raised",
                               !.exc = exc, !.libExc = exc]
                /\ UNCHANGED <<pc, frame>>
          \/ /\ "None" \in LoadErrors(fs, file_path)
             /\ log' = entered
             /\ call' = [NoCall EXCEPT !.op = "analyze_file", !.self = i,
                            !.path = file_path, !.status = "running"]
             /\ frame' = [NoFrame EXCEPT !.self = i, !.file_path = file_path,
                             !.y = file_path, !.sr = analyzers[i].sample_rate]
             /\ pc' = "extract"
    /\ UNCHANGED <<fs, separators, results, analyzers, features, cli, loggerLevel>>

\* self._extract_features(y, sr)
ExtractFeatures ==
    /\ pc = "extract"
    /\ \/ \E exc \in BeatTrackErrors \ {"None"} :
             /\ call' = [call EXCEPT !.status = "raised", !.exc = exc,
                                     !.libExc = exc]
             /\ pc' = "idle"
             /\ frame' = NoFrame
             /\ UNCHANGED features
       \/ \E tempo \in Tempos :
             /\ features' = Append(features, NewFeatures(tempo))
             /\ call' = [call EXCEPT !.tempo = tempo.value]
             /\ frame' = [frame EXCEPT !.features = Len(features) + 1]
             /\ pc' = "assign"
    /\ UNCHANGED <<fs, separators, results, analyzers, cli, loggerLevel, log>>

\* the rest of analyze_file: features.path = file_path; return features
AnalyzeFileReturn ==
    /\ pc = "assign"
    /\ features' = [features EXCEPT
                       ![frame.features] = AssignPath(@, frame.file_path)]
    /\ call' = [call EXCEPT !.status = "returned", !.ret = frame.features]
    /\ pc' = "idle"
    /\ frame' = NoFrame
    /\ UNCHANGED <<fs, separators, results, analyzers, cli, loggerLevel, log>>

----------------------------------------------------------------------------
(* The command line *)

\* the commands of the group: click names a command after its function
Commands == {"analyse", "split"}

\* names a user may type
TypedCommands == {"analyse", "analyze", "split"}

\* DEFAULT_CONFIG.stem_separation.model_name
DefaultModel == "htdemucs"

SkipFlags == {"skip_fingerprinting", "skip_bpm", "skip_key", "skip_qualitative"}

\* values of INPUT_DIR: a directory, a path that does not exist, a file
CliInputDirs == {InputDir, <<"missing">>, SongA}

\* values of --output-dir: not given (None), or one path
CliOutputDirs ==
    {<< >>, <<InputDir>>, <<NestedDir>>, <<SongA>>, <<Join(SongA, "stems")>>}

\* click.Path(exists=True, file_okay=False, dir_okay=True) on INPUT_DIR
InputDirUsage(fsys, input_dir) ==
    IF ~Exists(fsys, input_dir) THEN "does not exist"
    ELSE IF ~IsDir(fsys, input_dir) THEN "is a file"
    ELSE ""

\* click.Path(file_okay=False, dir_okay=True) on --output-dir, default None
OutputDirUsage(fsys, output_dir) ==
    IF output_dir # << >> /\ IsFile(fsys, output_dir[1]) THEN "is a file" ELSE ""

\* variant: the option is ignored
EffectiveOutputDirIgnoringOption(output_dir, input_dir) == input_dir

\* output_dir = output_dir or input_dir (a Path is never falsy)
EffectiveOutputDir(output_dir, input_dir) ==
    IF output_dir = << >> THEN input_dir ELSE output_dir[1]

\* output_dir.mkdir(exist_ok=True, parents=True)
CommandMkdir(fsys, output_dir) == Mkdir(fsys, output_dir, TRUE, TRUE)

\* the "Analysis features: " record of analyse
AnalysisFeatures(skips) ==
    <<IF "skip_fingerprinting" \in skips THEN "" ELSE "MusicBrainz",
      IF "skip_bpm" \in skips THEN "" ELSE "BPM",
      IF "skip_key" \in skips THEN "" ELSE "Key",
      IF "skip_qualitative" \in skips THEN "" ELSE "Qualitative">>

\* the records the body of a command emits once its directory exists
CommandRecords(name, input_dir, output_dir, skips, model) ==
    IF name = "analyse"
    THEN <<LogRecord(PackageLogger, "INFO", "Analyzing audio files in:", input_dir),
           LogRecord(PackageLogger, "INFO", "Output directory:", output_dir),
           LogRecord(PackageLogger, "INFO", "Analysis features:",
                     AnalysisFeatures(skips))>>
    ELSE <<LogRecord(PackageLogger, "INFO", "Splitting audio files in:", input_dir),
           LogRecord(PackageLogger, "INFO", "Output directory:", output_dir),
           LogRecord(PackageLogger, "INFO", "Using DEMUCS model:", <<model>>)>>

\* cli() run on: <name> INPUT_DIR [--output-dir D] [--skip-...] [--model M] [-v]
Invoke(name, input_dir, output_dir, skips, model, verbose) ==
    LET args == [NoCli EXCEPT !.cmd = name, !.input_dir = input_dir,
                    !.output_dir = output_dir, !.skips = skips, !.model = model,
                    !.verbose = verbose]
        usage == IF name \notin Commands THEN "No such command"
                 ELSE IF InputDirUsage(fs, input_dir) # ""
                      THEN InputDirUsage(fs, input_dir)
                 ELSE OutputDirUsage(fs, output_dir)
        effective == EffectiveOutputDir(output_dir, input_dir)
        made == CommandMkdir(fs, effective)
    IN /\ pc = "idle"
       /\ name = "analyse" => model = DefaultModel
       /\ name # "analyse" => skips = {}
       /\ IF usage # ""
          THEN /\ cli' = [args EXCEPT !.exit = 2, !.usage = usage]
               /\ log' = << >>
               /\ UNCHANGED <<fs, loggerLevel>>
          ELSE /\ loggerLevel' = IF verbose THEN "DEBUG" ELSE loggerLevel
               /\ fs' = made.fs
               /\ IF made.err # "None"
                  THEN /\ cli' = [args EXCEPT !.exit = 1, !.exc = made.err]
                       /\ log' = << >>
                  ELSE /\ cli' = args
                       /\ log' = CommandRecords(name, input_dir, effective,
                                                skips, model)
       /\ UNCHANGED <<separators, results, analyzers, features, pc, frame, call>>

Init ==
    /\ fs = InitialFs
    /\ separators = << >>
    /\ results = << >>
    /\ analyzers = << >>
    /\ features = << >>
    /\ pc = "idle"
    /\ frame = NoFrame
    /\ call = NoCall
    /\ cli = NoCli
    /\ loggerLevel = "NOTSET"
    /\ log = << >>

Next ==
    \/ \E m \in ModelNames, d \in OutputDirs : StemSeparatorInit(m, d)
    \/ \E i \in DOMAIN separators, f \in InputFiles : Separate(i, f)
    \/ \E kw \in AnalyzerKwargs : AudioAnalyzerInit(kw)
    \/ \E i \in DOMAIN analyzers, f \in InputFiles : AnalyzeFileLoad(i, f)
    \/ \E i \in DOMAIN analyzers, f \in InputFiles : UndefinedMethod(i, "analyze", f)
    \/ ExtractFeatures
    \/ AnalyzeFileReturn

Spec == Init /\ [][Next]_vars

CliNext ==
    \E name \in TypedCommands, input_dir \in CliInputDirs,
       output_dir \in CliOutputDirs, skips \in SUBSET SkipFlags,
       model \in {DefaultModel, "4stems"}, verbose \in BOOLEAN :
          Invoke(name, input_dir, output_dir, skips, model, verbose)

CliSpec == Init /\ [][CliNext]_vars

----------------------------------------------------------------------------
(* Claims about StemSeparator *)

SeparateReturned == call.op = "separate" /\ call.status = "returned"

\* C1: a separate(f) call on separator s that returns yields a result r with
\* r.input_file = f and r.output_dir = s.output_dir, whatever calls came before.
C1_ResultEchoesRequest ==
    SeparateReturned =>
        /\ call.ret = Len(results)
        /\ results[call.ret].input_file = call.path
        /\ results[call.ret].output_dir = separators[call.self].output_dir

\* a second separate call, on another file than the first, has returned
C1_Witness ==
    /\ SeparateReturned
    /\ call.ret = 2
    /\ results[1].input_file # results[2].input_file

\* C5: the stems of a returned result are keyed by stems of the separator's
\* model, each mapped to output_dir / "<stem>.wav", and a stem of the model is
\* a key exactly when that file exists as separate returns.
C5_StemsAreTheExistingFiles ==
    SeparateReturned =>
        LET r == results[call.ret]
            sep == separators[call.self]
            model == StemsForModel(sep.model_name)
        IN /\ DOMAIN r.stems \subseteq model
           /\ \A k \in DOMAIN r.stems :
                 r.stems[k] = Join(sep.output_dir, WavName(k))
           /\ \A k \in model :
                 k \in DOMAIN r.stems <=> Exists(fs, Join(sep.output_dir, WavName(k)))

\* a result that reports some stems of its model and lacks another
C5_Witness ==
    /\ SeparateReturned
    /\ DOMAIN results[call.ret].stems # {}
    /\ DOMAIN results[call.ret].stems # StemsForModel(separators[call.self].model_name)

\* every directory from the working directory down to p exists
RECURSIVE DirsDownTo(_, _)
DirsDownTo(fsys, p) ==
    IsDir(fsys, p) /\ (p = << >> \/ DirsDownTo(fsys, Parent(p)))

C7_Constructed ==
    call.op = "StemSeparator" =>
        /\ call.status = "returned" =>
              /\ call.ret = Len(separators)
              /\ separators[call.ret].model_name = call.model
              /\ separators[call.ret].output_dir = call.path
              /\ separators[call.ret].separator.params = <<"spleeter", call.model>>
              /\ DirsDownTo(fs, call.path)
        /\ call.status = "raised" =>
              /\ call.exc # "FileNotFoundError"
              /\ IsDir(fs, call.path) => call.exc \notin {"FileExistsError",
                                                         "NotADirectoryError"}

C7_Kept ==
    \A i \in DOMAIN separators :
        /\ i \in DOMAIN separators'
        /\ separators'[i] = separators[i]
        /\ DirsDownTo(fs', separators[i].output_dir)

\* C7: construction sets model_name, output_dir and the bound model from its
\* arguments and leaves output_dir existing with all its parents; it does not
\* fail because the directory exists or because parents are missing; and no
\* later call changes the attributes or removes the directory.
C7_ConstructionEstablishesAttributes == [][C7_Constructed' /\ C7_Kept]_vars

\* a separator built on a directory whose parent was missing has since
\* returned a result
C7_Witness ==
    /\ SeparateReturned
    /\ separators[call.self].output_dir = NestedDir
    /\ separators[call.self].model_name = "4stems"

\* C10: the paths of a result depend on output_dir and the stem name only: two
\* results for the same directory give a common stem the same path; the files
\* a call writes replace those earlier results refer to; and a stem file the
\* call did not write, left by an earlier call, is reported all the same.
C10_StemPathsIgnoreInput ==
    /\ \A i, j \in DOMAIN results :
          results[i].output_dir = results[j].output_dir =>
              \A k \in DOMAIN results[i].stems \cap DOMAIN results[j].stems :
                  results[i].stems[k] = results[j].stems[k]
    /\ SeparateReturned =>
          LET r == results[call.ret]
              sep == separators[call.self]
          IN /\ \A k \in call.written :
                   /\ k \in DOMAIN r.stems
                   /\ fs[r.stems[k]].data = call.path
                   /\ \A j \in 1..(call.ret - 1) :
                         (results[j].output_dir = r.output_dir
                             /\ k \in DOMAIN results[j].stems)
                         => fs[results[j].stems[k]].data = call.path
             /\ \A k \in StemsForModel(sep.model_name) \ call.written :
                   Exists(fs, StemFile(sep.output_dir, k)) => k \in DOMAIN r.stems

\* the second of two calls on different files overwrote a stem of the first
\* result and reports another stem that only the first call wrote
C10_Witness ==
    /\ SeparateReturned
    /\ call.ret = 2
    /\ results[1].input_file # results[2].input_file
    /\ \E k \in call.written :
          k \in DOMAIN results[1].stems /\ results[1].stems[k] = results[2].stems[k]
    /\ \E k \in DOMAIN results[2].stems \ call.written :
          fs[results[2].stems[k]].data = results[1].input_file

----------------------------------------------------------------------------
(* Claims about AudioAnalyzer and about the two records *)

AnalyzeFileReturned == call.op = "analyze_file" /\ call.status = "returned"

\* C2: an error e raised by the library call inside analyze_file (audio load,
\* beat tracking) or inside separate (separate_to_file) is logged at error
\* level and the same e reaches the caller, no record being returned.
C2_LibraryErrorsLoggedAndReraised ==
    (call.op \in {"analyze_file", "separate"} /\ call.libExc # "None") =>
        /\ call.status = "raised"
        /\ call.exc = call.libExc
        /\ call.ret = 0
        /\ \E n \in DOMAIN log : log[n].level = "ERROR"

C4_RecordsNeverAssigned ==
    [][/\ \A i \in DOMAIN features : features'[i] = features[i]
       /\ \A i \in DOMAIN results : results'[i] = results[i]]_vars

\* a step that constructs a record does so after the library call completed
C4_ConstructedOnCompletion ==
    /\ Len(features') >= Len(features)
    /\ Len(results') >= Len(results)
    /\ Len(features') > Len(features) =>
          /\ Len(features') = Len(features) + 1
          /\ pc = "extract"
          /\ call'.libExc = "None"
          /\ features'[Len(features')].bpm.value = call'.tempo
    /\ Len(results') > Len(results) =>
          /\ Len(results') = Len(results) + 1
          /\ call'.op = "separate"
          /\ call'.status = "returned"
          /\ \A k \in call'.written : IsFile(fs', results'[Len(results')].stems[k])

\* the one assignment to a constructed record: analyze_file sets the path of
\* the record it is about to return, which still has the placeholder path
C4_PathAssignedOnce(i) ==
    /\ pc = "assign"
    /\ pc' = "idle"
    /\ i = frame.features
    /\ call'.status = "returned"
    /\ call'.ret = i
    /\ features[i].path = EmptyPath
    /\ features'[i].path = frame.file_path
    /\ features'[i].bpm = features[i].bpm
    /\ features'[i].key = features[i].key

\* C4, amended: a separation result is never changed once constructed; an
\* audio-features record is changed exactly once, when analyze_file assigns
\* its path before returning it, and never after it was returned; both are
\* constructed once the library call has completed.
C4_RecordsFixedOnceReturned ==
    [][/\ C4_ConstructedOnCompletion
       /\ \A i \in DOMAIN results : results'[i] = results[i]
       /\ \A i \in DOMAIN features :
             features'[i] = features[i] \/ C4_PathAssignedOnce(i)]_vars

\* a returned features record whose path was assigned, with another record
\* constructed after it
C4_Witness ==
    /\ Len(features) = 2
    /\ features[1].path # EmptyPath
    /\ pc = "assign"

\* C8: AudioAnalyzer(bpm_method=b, key_method=k) exposes bpm_method and
\* key_method, and analyze(file) returns a record with bpm, key, confidence.
C8_AnalyzerOfTheTests ==
    /\ (call.op = "AudioAnalyzer"
            /\ call.kwargs.names = {"bpm_method", "key_method"}) =>
          /\ call.status = "returned"
          /\ {"bpm_method", "key_method"} \subseteq DOMAIN analyzers[call.ret]
    /\ call.op = "analyze" =>
          /\ call.status = "returned"
          /\ {"bpm", "key", "confidence"} \subseteq DOMAIN features[call.ret]

----------------------------------------------------------------------------
(* Claims about the command line *)

\* file names of the documented formats: artist_songname_bpm_key.wav, its
\* sidecar, and artist_songname_bpm_key_stemname.wav
RenamedWav == [a |-> "artist_a_120_C.wav", b |-> "artist_b_120_C.wav"]
Sidecar == [a |-> "artist_a_120_C.json", b |-> "artist_b_120_C.json"]
RenamedStem == [a |-> "artist_a_120_C_vocals.wav", b |-> "artist_b_120_C_vocals.wav"]

\* the songs whose WAV file lies in directory d
SongsIn(fsys, d) ==
    {song \in {"a", "b"} :
        IsFile(fsys, Join(d, IF song = "a" THEN "a.wav" ELSE "b.wav"))}

\* the directory a completed command was asked to write to
CliTarget == IF cli.output_dir = << >> THEN cli.input_dir ELSE cli.output_dir[1]

\* C6: when the analyze command completes, the output directory holds, for
\* every WAV file of the input directory, a renamed WAV file and a sidecar
\* JSON file of the same basename; when split completes, it holds stem files
\* named after the input.
C6_OutputFilesWritten ==
    /\ (cli.cmd \in {"analyse", "analyze"} /\ cli.exit = 0) =>
          \A song \in SongsIn(fs, cli.input_dir) :
              /\ IsFile(fs, Join(CliTarget, RenamedWav[song]))
              /\ IsFile(fs, Join(CliTarget, Sidecar[song]))
    /\ (cli.cmd = "split" /\ cli.exit = 0) =>
          \A song \in SongsIn(fs, cli.input_dir) :
              IsFile(fs, Join(CliTarget, RenamedStem[song]))

\* what C9 says of a command line whose subcommands are the names of `named`
CliSurface(named) ==
    cli.cmd # "" =>
        /\ cli.cmd \in named <=> cli.usage # "No such command"
        /\ (cli.cmd \in named /\ cli.exit = 0) =>
              /\ IsDir(fs, CliTarget)
              /\ Len(log) = 3
              /\ log[2].text = "Output directory:"
              /\ log[2].arg = CliTarget

\* C9 as stated: the subcommands are analyze and split; the effective output
\* directory is the input directory unless --output-dir is given, and it
\* exists when the command returns.
C9_AnalyzeAndSplit == CliSurface({"analyze", "split"})

\* C9, amended: the subcommands are analyse and split; the effective output
\* directory is the input directory unless --output-dir is given, and it
\* exists when the command returns.
C9_AnalyseAndSplit == CliSurface({"analyse", "split"})

\* analyse returned after creating the directory given with --output-dir
C9_Witness ==
    /\ cli.cmd = "analyse"
    /\ cli.exit = 0
    /\ cli.output_dir = <<NestedDir>>
    /\ IsDir(fs, NestedDir)

====
